---- MODULE Spec2Model ----
(***************************************************************************)
(* State-machine model of the YouTube playlist builder:                    *)
(*   src/app/builder_lambda.py  (handler with search and population)       *)
(*   src/app/main.py            (earlier handler variant, create only)     *)
(*                                                                         *)
(* One invocation is single-threaded; every external call (secret store,   *)
(* configuration store, YouTube Data API, report sink) is a step whose     *)
(* response is chosen nondeterministically.                                *)
(***************************************************************************)
EXTENDS Integers, Sequences, FiniteSets, TLC

VARIABLES
    variant,          \* which module's handler is running
    pc,               \* position of the invocation
    error,            \* the exception that ended the invocation ("none" if none)
    result,           \* the dict returned by handler
    competition_id,   \* handler local
    earliest_date,    \* handler local
    test_mode,        \* handler local (after coercion)
    max_pages,        \* handler local / _search_videos parameter
    cutoff_iso,       \* handler local: cutoff in seconds since the epoch (UTC)
    has_playlist,     \* main.py: "playlist" in task
    reports_bucket,   \* main.py: REPORTS_BUCKET is set
    cfg,              \* channel configuration of the competition
    playlist_id,      \* handler local
    ci, qi,           \* _search_videos: position in channel_ids / queries
    page_token,       \* _search_videos local
    pages,            \* _search_videos local
    video_ids,        \* _search_videos local, then handler local
    seen,             \* _search_videos local
    details_left,     \* _search_videos: elements of details["items"] still to process
    resp_next,        \* _search_videos: resp.get("nextPageToken") of the page in process
    idx,              \* _add_videos_to_playlist: position in video_ids
    videos_added,     \* _add_videos_to_playlist local
    \* ---- history variables (observations of the external calls) ----
    issued,           \* kinds of external call issued so far
    creates,          \* number of playlists().insert requests
    created_id,       \* identifier returned by the playlist create request
    probe_outcome,    \* "none", or how channels().list(mine=True) ended: "ok" / "failed"
    now,              \* the instant datetime.now() returned, seconds since the epoch
    test_mode_asked,  \* task.get("test_mode") as received reads as true (TrueLike)
    runs,             \* invocations that have ended before this one
    ok_runs,          \* those of them that returned a non-test summary
    ok_creates,       \* playlists().insert requests of those ok_runs invocations
    last,             \* the most recent search-page request and how its iteration ended
    meta_failed,      \* a videos().list of the combination of `last` failed with HttpError
    dup_skipped,      \* a qualifying video was skipped because it was already in seen
    combos_searched,  \* number of channel/query combinations that got a request
    boundary_hit,     \* a metadata fetch reported a duration equal to the requirement
    qualified,        \* videos some metadata fetch reported longer than the requirement
    malformed_seen,   \* an element of details["items"] could not be processed
    attempts,         \* video ids for which playlistItems().insert was requested
    failed_inserts,   \* number of insert requests that failed with HttpError
    insert_targets    \* playlistId values the insert requests carried

vars == <<variant, pc, error, result, competition_id, earliest_date, test_mode,
          max_pages, cutoff_iso, has_playlist, reports_bucket, cfg, playlist_id,
          ci, qi, page_token, pages, video_ids, seen, details_left, resp_next,
          idx, videos_added, issued, creates, created_id, probe_outcome, last,
          meta_failed,
          dup_skipped, combos_searched, boundary_hit, qualified, attempts,
          failed_inserts, now, test_mode_asked, runs, ok_runs, ok_creates,
          malformed_seen, insert_targets>>

repeat_vars  == <<runs, ok_runs, ok_creates>>
task_vars    == <<now, test_mode_asked, repeat_vars>>
handler_vars == <<variant, competition_id, earliest_date, test_mode, cutoff_iso,
                  has_playlist, reports_bucket, playlist_id, creates, created_id,
                  probe_outcome, task_vars>>
search_ghosts == <<last, meta_failed, dup_skipped, combos_searched, boundary_hit,
                   qualified, malformed_seen>>
search_vars  == <<ci, qi, page_token, pages, video_ids, seen, details_left, resp_next,
                  search_ghosts>>
insert_vars  == <<idx, videos_added, attempts, failed_inserts, insert_targets>>

-----------------------------------------------------------------------------
(* Bounds of the model *)
NumVideos      == 2   \* video identifiers 1..NumVideos
MaxItems       == 2   \* items in one search page / one metadata response
MaxChannels    == 1   \* channel_ids of a configuration (search specification)
MaxKeywords    == 1   \* search_keywords of a configuration
MaxPagesBound  == 2   \* largest YOUTUBE_MAX_PAGES tried (smallest is -1)
MaxListLen     == 3   \* longest list handed to _add_videos_to_playlist
MaxInvocations == 2   \* invocations of handler in a row

(* Program constants *)
DefaultMinDurationMinutes == 3
SecondsPerMinute          == 60

-----------------------------------------------------------------------------
(* Python values *)
NoneVal == "<None>"
NoToken == NoneVal
Tokens  == {"CAUQAA", "CAoQAA"}
Videos  == 1..NumVideos
NoVideoId == 0                      \* a search item without id.videoId
KeywordNames == <<"goals", "extended", "recap">>
EmptyDict == <<>>

\* dict.get(key, default)
Get(d, key, default) == IF key \in DOMAIN d THEN d[key] ELSE default

Range(s) == {s[i] : i \in DOMAIN s}
NoDup(s) == \A i, j \in DOMAIN s : i # j => s[i] # s[j]
IsPrefix(s, t) == Len(s) <= Len(t) /\ SubSeq(t, 1, Len(s)) = s
SeqsUpTo(S, n) == UNION {[1..k -> S] : k \in 0..n}

-----------------------------------------------------------------------------
(* _search_videos, builder_lambda.py 197-271 *)

\* lines 208-211: queries = [search_filter] if search_filter else []; extend(keywords)
queries_AlwaysFilter(c) ==
    <<Get(c, "search_filter", "")>> \o Get(c, "search_keywords", <<>>)
queries(c) ==
    (IF Get(c, "search_filter", "") # "" THEN <<Get(c, "search_filter", "")>> ELSE <<>>)
        \o Get(c, "search_keywords", <<>>)

channel_ids(c) == Get(c, "channel_ids", <<>>)

\* lines 201, 204
min_duration_seconds(c) ==
    Get(c, "min_duration_minutes", DefaultMinDurationMinutes) * SecondsPerMinute

\* isodate.parse_duration(...).total_seconds() of "PT<m>M<s>S"
parse_duration(d) == d.m * SecondsPerMinute + d.s

\* line 260: dur_s > min_duration_seconds and vid not in seen
admits_Inclusive(dur_s, thr, vid, sn) == dur_s >= thr /\ vid \notin sn
admits_NoDedup(dur_s, thr, vid, sn) == dur_s > thr
admits(dur_s, thr, vid, sn) == dur_s > thr /\ vid \notin sn

\* line 245: cand_ids = [videoId of the items that have one]
cand_ids(items) == SelectSeq(items, LAMBDA x : x # NoVideoId)

\* line 267: if not page_token or pages >= max_pages: break
loop_break_TokenOnly(tok, pgs, mx) == tok = NoToken
loop_break(tok, pgs, mx) == tok = NoToken \/ pgs >= mx

(* Responses of the API *)
DurationValues == {[m |-> 1, s |-> 0], [m |-> 3, s |-> 0], [m |-> 3, s |-> 1]}
\* one element of details["items"]
DetailItems ==
    {[id |-> v, kind |-> "ok", duration |-> d] : v \in Videos, d \in DurationValues}
    \cup {[id |-> v, kind |-> k, duration |-> [m |-> 0, s |-> 0]] :
             v \in Videos, k \in {"unparseable", "no_details"}}
\* resp["items"] of a search page, by the videoId of each item
SearchItems == SeqsUpTo(Videos \cup {NoVideoId}, MaxItems)
PageTokens == Tokens \cup {NoToken}

\* some page has candidates, some page has none (line 247)
page_has_candidates == (\E items \in SearchItems : cand_ids(items) # <<>>) = TRUE
page_has_no_candidates == (\E items \in SearchItems : cand_ids(items) = <<>>) = TRUE

NoLast == [ci |-> 0, qi |-> 0, n |-> 0, outcome |-> "none", next |-> NoToken]

\* history: the request issued by this iteration, for combination (ci, qi)
FirstOfCombo == ~(last.ci = ci /\ last.qi = qi)
LastAfter(outcome, next) ==
    [ci |-> ci, qi |-> qi,
     n |-> IF FirstOfCombo THEN 1 ELSE last.n + 1,
     outcome |-> outcome, next |-> next]

\* the requirement, stated apart from the code: strictly longer than the
\* configured minutes, 3 minutes when the configuration has none
RequiredSeconds ==
    IF "min_duration_minutes" \in DOMAIN cfg THEN cfg.min_duration_minutes * 60 ELSE 180

\* lines 220-224: leave the while loop and take the next (channel, query)
next_combo_AbortSearch ==
    /\ pc' = "search_done"
    /\ UNCHANGED <<ci, qi>>
    /\ page_token' = NoToken
    /\ pages' = 0
    /\ meta_failed' = FALSE
next_combo_KeepToken ==
    /\ IF qi < Len(queries(cfg))
       THEN /\ qi' = qi + 1 /\ ci' = ci /\ pc' = "search_page"
       ELSE IF ci < Len(channel_ids(cfg))
            THEN /\ ci' = ci + 1 /\ qi' = 1 /\ pc' = "search_page"
            ELSE /\ UNCHANGED <<ci, qi>> /\ pc' = "search_done"
    /\ page_token' = page_token
    /\ pages' = 0
    /\ meta_failed' = FALSE
next_combo ==
    /\ IF qi < Len(queries(cfg))
       THEN /\ qi' = qi + 1 /\ ci' = ci /\ pc' = "search_page"
       ELSE IF ci < Len(channel_ids(cfg))
            THEN /\ ci' = ci + 1 /\ qi' = 1 /\ pc' = "search_page"
            ELSE /\ UNCHANGED <<ci, qi>> /\ pc' = "search_done"
    /\ page_token' = NoToken
    /\ pages' = 0
    /\ meta_failed' = FALSE

\* lines 265-268; meta_http: this iteration's videos().list failed with HttpError
end_of_iteration(next, meta_http) ==
    IF loop_break(next, pages + 1, max_pages)
    THEN next_combo
    ELSE /\ page_token' = next
         /\ pages' = pages + 1
         /\ pc' = "search_page"
         /\ meta_failed' = (meta_failed \/ meta_http)
         /\ UNCHANGED <<ci, qi>>

\* lines 199-218: entry of _search_videos
search_begin ==
    /\ pc = "search_init"
    /\ video_ids' = <<>>
    /\ seen' = {}
    /\ page_token' = NoToken
    /\ pages' = 0
    /\ IF queries(cfg) = <<>> \/ channel_ids(cfg) = <<>>
       THEN /\ pc' = "search_done" /\ ci' = 0 /\ qi' = 0
       ELSE /\ pc' = "search_page" /\ ci' = 1 /\ qi' = 1
    /\ UNCHANGED <<handler_vars, insert_vars, error, result, max_pages, cfg, issued,
                   details_left, resp_next, search_ghosts>>

\* line 238: pageToken=page_token, the token a search().list request carries
request_page_token == page_token

SearchIssued(kinds) ==
    /\ issued' = issued \cup kinds
    /\ combos_searched' = IF FirstOfCombo THEN combos_searched + 1 ELSE combos_searched
    /\ UNCHANGED <<handler_vars, insert_vars, result, max_pages, cfg>>

\* lines 227-242: search().list raises HttpError: log, break
search_page_http_error_AbortSearch ==
    /\ pc = "search_page"
    /\ SearchIssued({"search"})
    /\ last' = LastAfter("search_http", NoToken)
    /\ next_combo_AbortSearch
    /\ UNCHANGED <<video_ids, seen, error, details_left, resp_next,
                   dup_skipped, boundary_hit, qualified,
                   malformed_seen>>
search_page_http_error ==
    /\ pc = "search_page"
    /\ SearchIssued({"search"})
    /\ last' = LastAfter("search_http", NoToken)
    /\ next_combo
    /\ UNCHANGED <<video_ids, seen, error, details_left, resp_next,
                   dup_skipped, boundary_hit, qualified,
                   malformed_seen>>

\* lines 227-239: search().list raises something that is not an HttpError
search_page_raises ==
    /\ pc = "search_page"
    /\ SearchIssued({"search"})
    /\ last' = LastAfter("search_raised", NoToken)
    /\ pc' = "raised"
    /\ error' = "SearchTransportError"
    /\ UNCHANGED <<ci, qi, page_token, pages, video_ids, seen, details_left, resp_next,
                   meta_failed, dup_skipped, boundary_hit, qualified,
                   malformed_seen>>

\* lines 227-247, 265-268: a page none of whose items has a videoId
search_page_no_candidates ==
    /\ pc = "search_page"
    /\ page_has_no_candidates
    /\ \E next \in PageTokens :
        /\ last' = LastAfter("ok", next)
        /\ end_of_iteration(next, FALSE)
    /\ SearchIssued({"search"})
    /\ UNCHANGED <<video_ids, seen, error, details_left, resp_next,
                   dup_skipped, boundary_hit, qualified,
                   malformed_seen>>

\* lines 227-255: a page with candidates; videos().list answers with n items
videos_list ==
    /\ pc = "search_page"
    /\ page_has_candidates
    /\ \E next \in PageTokens, n \in 0..MaxItems :
        /\ last' = LastAfter("ok", next)
        /\ IF n = 0
           THEN /\ end_of_iteration(next, FALSE)
                /\ UNCHANGED <<details_left, resp_next>>
           ELSE /\ pc' = "details_loop"
                /\ details_left' = n
                /\ resp_next' = next
                /\ UNCHANGED <<ci, qi, page_token, pages, meta_failed>>
    /\ SearchIssued({"search", "videos"})
    /\ UNCHANGED <<video_ids, seen, error, dup_skipped, boundary_hit, qualified,
                   malformed_seen>>

\* lines 248-255, 265-268: videos().list raises HttpError: details = {"items": []}
videos_list_http_error_Break ==
    /\ pc = "search_page"
    /\ page_has_candidates
    /\ \E next \in PageTokens : last' = LastAfter("meta_http", next)
    /\ next_combo
    /\ SearchIssued({"search", "videos"})
    /\ UNCHANGED <<video_ids, seen, error, details_left, resp_next,
                   dup_skipped, boundary_hit, qualified,
                   malformed_seen>>
videos_list_http_error ==
    /\ pc = "search_page"
    /\ page_has_candidates
    /\ \E next \in PageTokens :
        /\ last' = LastAfter("meta_http", next)
        /\ end_of_iteration(next, TRUE)
    /\ SearchIssued({"search", "videos"})
    /\ UNCHANGED <<video_ids, seen, error, details_left, resp_next,
                   dup_skipped, boundary_hit, qualified,
                   malformed_seen>>

\* lines 248-252: videos().list raises something that is not an HttpError
videos_list_raises ==
    /\ pc = "search_page"
    /\ page_has_candidates
    /\ last' = LastAfter("meta_raised", NoToken)
    /\ SearchIssued({"search", "videos"})
    /\ pc' = "raised"
    /\ error' = "MetadataTransportError"
    /\ UNCHANGED <<ci, qi, page_token, pages, video_ids, seen, details_left, resp_next,
                   meta_failed, dup_skipped, boundary_hit, qualified,
                   malformed_seen>>

\* lines 257-263: one element of details["items"] (each element's content is
\* drawn when the loop reaches it); after the last one, lines 265-268
details_item ==
    /\ pc = "details_loop"
    /\ details_left > 0
    /\ \E v \in DetailItems :
        IF v.kind # "ok"
        THEN \* KeyError 'contentDetails' / isodate.ISO8601Error: not caught
             /\ pc' = "raised"
             /\ error' = "MalformedVideoError"
             /\ malformed_seen' = TRUE
             /\ UNCHANGED <<ci, qi, page_token, pages, video_ids, seen, details_left,
                            resp_next, meta_failed, dup_skipped, boundary_hit, qualified>>
        ELSE LET dur_s == parse_duration(v.duration)
                 admit == admits(dur_s, min_duration_seconds(cfg), v.id, seen)
             IN  /\ video_ids' = IF admit THEN Append(video_ids, v.id) ELSE video_ids
                 /\ seen' = IF admit THEN seen \cup {v.id} ELSE seen
                 /\ qualified' = IF dur_s > RequiredSeconds
                                 THEN qualified \cup {v.id} ELSE qualified
                 /\ boundary_hit' = (boundary_hit \/ dur_s = RequiredSeconds)
                 /\ dup_skipped' = (dup_skipped
                                     \/ (dur_s > RequiredSeconds /\ v.id \in qualified))
                 /\ error' = error
                 /\ malformed_seen' = malformed_seen
                 /\ IF details_left = 1
                    THEN /\ end_of_iteration(resp_next, FALSE)
                         /\ details_left' = 0
                         /\ resp_next' = NoToken
                    ELSE /\ details_left' = details_left - 1
                         /\ UNCHANGED <<pc, ci, qi, page_token, pages, resp_next,
                                        meta_failed>>
    /\ UNCHANGED <<handler_vars, insert_vars, result, max_pages, cfg, issued, last,
                   combos_searched>>

search_videos ==
    \/ search_begin
    \/ search_page_http_error
    \/ search_page_raises
    \/ search_page_no_candidates
    \/ videos_list
    \/ videos_list_http_error
    \/ videos_list_raises
    \/ details_item

-----------------------------------------------------------------------------
(* _add_videos_to_playlist, builder_lambda.py 273-297 *)

InsertIssued_Reversed ==
    /\ issued' = issued \cup {"insert"}
    /\ attempts' = Append(attempts, video_ids[Len(video_ids) + 1 - idx])
    /\ insert_targets' = insert_targets \cup {playlist_id}
    /\ UNCHANGED <<handler_vars, search_vars, result, max_pages, cfg>>
InsertIssued ==
    /\ issued' = issued \cup {"insert"}
    /\ attempts' = Append(attempts, video_ids[idx])
    /\ insert_targets' = insert_targets \cup {playlist_id}
    /\ UNCHANGED <<handler_vars, search_vars, result, max_pages, cfg>>

\* lines 277-292: playlistItems().insert succeeds
insert_item ==
    /\ pc = "insert"
    /\ idx <= Len(video_ids)
    /\ InsertIssued
    /\ videos_added' = videos_added + 1
    /\ idx' = idx + 1
    /\ UNCHANGED <<pc, error, failed_inserts>>

\* lines 293-294: playlistItems().insert raises HttpError: log, next video
insert_item_http_error_Stop ==
    /\ pc = "insert"
    /\ idx <= Len(video_ids)
    /\ InsertIssued
    /\ failed_inserts' = failed_inserts + 1
    /\ idx' = Len(video_ids) + 1
    /\ UNCHANGED <<pc, error, videos_added>>
insert_item_http_error ==
    /\ pc = "insert"
    /\ idx <= Len(video_ids)
    /\ InsertIssued
    /\ failed_inserts' = failed_inserts + 1
    /\ idx' = idx + 1
    /\ UNCHANGED <<pc, error, videos_added>>

\* lines 279-290: playlistItems().insert raises something that is not an HttpError
insert_item_raises ==
    /\ pc = "insert"
    /\ idx <= Len(video_ids)
    /\ InsertIssued
    /\ pc' = "raised"
    /\ error' = "InsertTransportError"
    /\ UNCHANGED <<idx, videos_added, failed_inserts>>

\* lines 296-297 and handler 139-142: return videos_added; return the summary
add_videos_return ==
    /\ pc = "insert"
    /\ idx > Len(video_ids)
    /\ pc' = "done"
    /\ result' = [ok |-> TRUE, playlist_id |-> playlist_id, videos_added |-> videos_added]
    /\ UNCHANGED <<handler_vars, search_vars, insert_vars, error, max_pages, cfg, issued>>

add_videos_to_playlist ==
    \/ insert_item
    \/ insert_item_http_error
    \/ insert_item_raises
    \/ add_videos_return

-----------------------------------------------------------------------------
(* _compute_cutoff_iso, builder_lambda.py 299-346 and main.py 132-155 *)

TzOffsetHours == 8           \* APP_TZ default "Asia/Singapore" (UTC+8, no DST)
MarginHours   == 24          \* timedelta(hours=24)
SecondsPerDay == 24 * 3600

DateKindsWithDay == {"date_str", "datetime_str", "datetime_z_str", "datetime", "date"}

\* builder_lambda.py 304-333: normalise the input to a calendar date
parse_earliest_builder(e) ==
    IF e.kind \in DateKindsWithDay
    THEN [ok |-> TRUE, day |-> e.day]
    ELSE [ok |-> FALSE, day |-> 0]      \* ValueError / ISO8601Error / TypeError

\* main.py 136-142, 147: fromisoformat(s.replace('Z', '')) or
\* fromisoformat(s + 'T00:00:00'); anything else must have a .date() method
parse_earliest_main(e) ==
    IF e.kind \in {"date_str", "datetime_z_str", "datetime"}
    THEN [ok |-> TRUE, day |-> e.day]
    ELSE [ok |-> FALSE, day |-> 0]      \* ValueError / AttributeError

\* lines 336-341 (main.py 145-150): days since the epoch of the local date, then
\* now_utc - days_diff days - 24 hours, in seconds since the epoch
cutoff_seconds_UtcToday(input_day, now_sg, now_utc) ==
    LET today_sg  == now_sg \div SecondsPerDay
        days_diff == today_sg - input_day
    IN  now_utc - days_diff * SecondsPerDay - MarginHours * 3600
cutoff_seconds(input_day, now_sg, now_utc) ==
    LET today_sg  == (now_sg + TzOffsetHours * 3600) \div SecondsPerDay
        days_diff == today_sg - input_day
    IN  now_utc - days_diff * SecondsPerDay - MarginHours * 3600

-----------------------------------------------------------------------------
(* handler, builder_lambda.py 28-142 and main.py 26-82 *)

Variants == {"builder_lambda", "main"}
DefaultMaxPages == 4         \* os.getenv("YOUTUBE_MAX_PAGES", "4")

\* truth value of a Python object
Falsy(x) == x \in {NoneVal, ""}
FalsyDate(e) == e.kind \in {"none", "empty_str"}

TaskDays == {19853}
EarliestDates ==
    {[kind |-> k, day |-> d] : k \in DateKindsWithDay, d \in TaskDays}
    \cup {[kind |-> k, day |-> 0] : k \in {"none", "empty_str", "garbage_str", "number"}}
CompetitionIds == {NoneVal, "", "epl", "xyz"}
TestModeValues ==
    {[type |-> "absent"], [type |-> "bool", b |-> TRUE], [type |-> "bool", b |-> FALSE],
     [type |-> "int", n |-> 0], [type |-> "int", n |-> 1]}
    \cup {[type |-> "str", s |-> x] :
            x \in {"true", "false", "0", "no", "", " TRUE ", "Yes", "y", "1"}}
Tasks ==
    {[competition_id |-> c, earliest_date |-> e, test_mode |-> t, playlist |-> p] :
        c \in CompetitionIds, e \in EarliestDates, t \in TestModeValues, p \in BOOLEAN}
Nows == {19855 * SecondsPerDay + 20 * 3600}
EnvMaxPages == {{}} \cup {{n} : n \in (0 - 1)..MaxPagesBound}

\* str.strip().lower() on the strings of TestModeValues
strip_lower(s) == CASE s = " TRUE " -> "true" [] s = "Yes" -> "yes" [] OTHER -> s

\* bool(x)
py_bool(t) ==
    CASE t.type = "absent" -> FALSE
      [] t.type = "bool"   -> t.b
      [] t.type = "int"    -> t.n # 0
      [] t.type = "str"    -> t.s # ""

\* the forms of test_mode that ask for the probe, stated apart from the code:
\* true, a non-zero number, or "true" / "1" / "yes" / "y" in any letter case
\* with surrounding spaces ignored; every other form of TestModeValues
\* ("false", "0", "no", "", 0, false, absent) asks for the normal path
TrueLike(t) ==
    \/ t.type = "bool" /\ t.b
    \/ t.type = "int" /\ t.n # 0
    \/ t.type = "str" /\ t.s \in {"true", " TRUE ", "1", "Yes", "y"}

\* builder_lambda.py 48-52
coerce_test_mode_builder(t) ==
    IF t.type = "str" THEN strip_lower(t.s) \in {"true", "1", "yes", "y"} ELSE py_bool(t)
\* main.py 37
coerce_test_mode_main(t) == py_bool(t)

Raise(e) ==
    /\ pc' = "raised"
    /\ error' = e

\* builder_lambda.py 83-88: presence checks, then the cutoff
validate_builder_SkipCompetitionCheck(c, e, t) ==
    IF FalsyDate(e) THEN Raise("Missing 'earliest_date' in event") /\ cutoff_iso' = cutoff_iso
    ELSE IF ~parse_earliest_builder(e).ok
         THEN Raise("CutoffError") /\ cutoff_iso' = cutoff_iso
         ELSE /\ cutoff_iso' = cutoff_seconds(parse_earliest_builder(e).day, t, t)
              /\ pc' = "client"
              /\ error' = error
validate_builder(c, e, t) ==
    IF Falsy(c) THEN Raise("Missing 'competition_id' in event") /\ cutoff_iso' = cutoff_iso
    ELSE IF FalsyDate(e)
         THEN Raise("Missing 'earliest_date' in event") /\ cutoff_iso' = cutoff_iso
         ELSE IF ~parse_earliest_builder(e).ok
              THEN Raise("CutoffError") /\ cutoff_iso' = cutoff_iso
              ELSE /\ cutoff_iso' = cutoff_seconds(parse_earliest_builder(e).day, t, t)
                   /\ pc' = "client"
                   /\ error' = error

\* main.py 40-45: the cutoff first, then the presence checks
validate_main_IgnoreCutoffError(c, e, t) ==
    /\ cutoff_iso' = IF parse_earliest_main(e).ok
                     THEN cutoff_seconds(parse_earliest_main(e).day, t, t)
                     ELSE cutoff_iso
    /\ IF Falsy(c) THEN Raise("Missing 'competition_id' in event")
       ELSE IF FalsyDate(e) THEN Raise("Missing 'earliest_date' in event")
            ELSE pc' = "client" /\ error' = error
validate_main(c, e, t) ==
    IF ~parse_earliest_main(e).ok
    THEN Raise("CutoffError") /\ cutoff_iso' = cutoff_iso
    ELSE /\ cutoff_iso' = cutoff_seconds(parse_earliest_main(e).day, t, t)
         /\ IF Falsy(c) THEN Raise("Missing 'competition_id' in event")
            ELSE IF FalsyDate(e) THEN Raise("Missing 'earliest_date' in event")
                 ELSE pc' = "client" /\ error' = error

\* entry of handler up to the first external call:
\* builder_lambda.py 35-88, main.py 33-45
handler_entry ==
    /\ pc = "idle"
    /\ \E v \in Variants, task \in Tasks, env \in EnvMaxPages, t \in Nows,
          bucket \in BOOLEAN :
        /\ variant' = v
        /\ now' = t
        /\ test_mode_asked' = TrueLike(task.test_mode)
        /\ competition_id' = task.competition_id
        /\ earliest_date' = task.earliest_date
        /\ max_pages' = IF env = {} THEN DefaultMaxPages ELSE CHOOSE n \in env : TRUE
        /\ IF v = "builder_lambda"
           THEN /\ test_mode' = coerce_test_mode_builder(task.test_mode)
                /\ has_playlist' = FALSE
                /\ reports_bucket' = FALSE
                /\ bucket = FALSE /\ task.playlist = FALSE
                /\ validate_builder(task.competition_id, task.earliest_date, t)
           ELSE /\ test_mode' = coerce_test_mode_main(task.test_mode)
                /\ has_playlist' = task.playlist
                /\ reports_bucket' = bucket
                /\ validate_main(task.competition_id, task.earliest_date, t)
    /\ UNCHANGED <<result, cfg, playlist_id, creates, created_id, probe_outcome,
                   repeat_vars, search_vars, insert_vars, issued>>

\* line 90 (main.py 47): youtube_client_from_secret(), lines 145-155
youtube_client_from_secret ==
    /\ pc = "client"
    /\ issued' = issued \cup {"secret"}
    /\ \/ pc' = (IF test_mode THEN "probe" ELSE "config") /\ error' = error
       \/ Raise("SecretError")
    /\ UNCHANGED <<handler_vars, search_vars, insert_vars, result, max_pages, cfg>>

ProbeTitles == {"Unknown Channel", "My Channel"}
TestSummary(title) ==
    [ok |-> TRUE, message |-> "YouTube API reachable", channel |-> title]

\* builder_lambda.py 92-107: the connectivity probe
probe_builder ==
    /\ pc = "probe"
    /\ variant = "builder_lambda"
    /\ issued' = issued \cup {"probe"}
    /\ \/ \E title \in ProbeTitles :
            /\ pc' = "done" /\ result' = TestSummary(title) /\ error' = error
            /\ probe_outcome' = "ok"
       \/ Raise("ProbeError") /\ result' = result /\ probe_outcome' = "failed"
    /\ UNCHANGED <<variant, competition_id, earliest_date, test_mode, cutoff_iso,
                   has_playlist, reports_bucket, playlist_id, creates, created_id,
                   task_vars, search_vars, insert_vars, max_pages, cfg>>

\* main.py 49-64: the probe, with _write_report_line (157-166) on both paths;
\* a failing put_object inside the try is caught by `except Exception`, which
\* writes the failure line and re-raises
probe_main ==
    /\ pc = "probe"
    /\ variant = "main"
    /\ \E probe_ok \in BOOLEAN, report_ok \in BOOLEAN :
        /\ issued' = issued \cup {"probe"} \cup (IF reports_bucket THEN {"report"} ELSE {})
        /\ probe_outcome' = IF probe_ok THEN "ok" ELSE "failed"
        /\ IF probe_ok /\ (report_ok \/ ~reports_bucket)
           THEN \E title \in ProbeTitles :
                   /\ pc' = "done" /\ result' = TestSummary(title) /\ error' = error
           ELSE /\ Raise(IF probe_ok THEN "ReportError" ELSE "ProbeError")
                /\ result' = result
    /\ UNCHANGED <<variant, competition_id, earliest_date, test_mode, cutoff_iso,
                   has_playlist, reports_bucket, playlist_id, creates, created_id,
                   task_vars, search_vars, insert_vars, max_pages, cfg>>

HandlerCfgs ==
    {[channel_ids |-> <<1>>, search_filter |-> "highlights"],
     [channel_ids |-> <<1>>, search_filter |-> "", search_keywords |-> <<>>]}
\* channel_map.get(competition_id) for the maps the configuration store may hold
ConfigLookups(c) == IF c = "epl" THEN HandlerCfgs \cup {EmptyDict} ELSE {EmptyDict}

\* builder_lambda.py 109-113 (main.py 66-72): _load_channels_config, the lookup,
\* and in main.py task["playlist"]
load_channels_config_NoUnknownCheck ==
    /\ pc = "config"
    /\ issued' = issued \cup {"config"}
    /\ \/ Raise("ConfigLoadError") /\ cfg' = cfg
       \/ \E c \in ConfigLookups(competition_id) :
            /\ cfg' = c
            /\ IF variant = "main" /\ ~has_playlist THEN Raise("KeyError 'playlist'")
               ELSE pc' = "create" /\ error' = error
    /\ UNCHANGED <<handler_vars, search_vars, insert_vars, result, max_pages>>
load_channels_config ==
    /\ pc = "config"
    /\ issued' = issued \cup {"config"}
    /\ \/ Raise("ConfigLoadError") /\ cfg' = cfg
       \/ \E c \in ConfigLookups(competition_id) :
            /\ cfg' = c
            /\ IF c = EmptyDict THEN Raise("Unknown competition_id")
               ELSE IF variant = "main" /\ ~has_playlist THEN Raise("KeyError 'playlist'")
               ELSE pc' = "create" /\ error' = error
    /\ UNCHANGED <<handler_vars, search_vars, insert_vars, result, max_pages>>

PlaylistIds == {"PLnew"}

\* builder_lambda.py 121-127 with _create_playlist 170-195
\* (main.py 73-82 with _create_or_get_playlist 106-130)
create_playlist_SwallowFailure ==
    /\ pc = "create"
    /\ issued' = issued \cup {"create"}
    /\ creates' = creates + 1
    /\ \/ \E id \in PlaylistIds :
            /\ created_id' = id
            /\ playlist_id' = id
            /\ error' = error
            /\ IF variant = "builder_lambda"
               THEN pc' = "search_init" /\ result' = result
               ELSE pc' = "done" /\ result' = [ok |-> TRUE, playlist_id |-> id]
       \/ /\ error' = "CreateError"
          /\ IF variant = "builder_lambda"
             THEN pc' = "search_init" /\ result' = result
             ELSE pc' = "done" /\ result' = [ok |-> TRUE, playlist_id |-> NoneVal]
          /\ UNCHANGED <<created_id, playlist_id>>
    /\ UNCHANGED <<variant, competition_id, earliest_date, test_mode, cutoff_iso,
                   has_playlist, reports_bucket, probe_outcome, task_vars,
                   search_vars, insert_vars, max_pages, cfg>>
create_playlist_Retry ==
    /\ pc = "create"
    /\ issued' = issued \cup {"create"}
    /\ \E tries \in {1, 2}, id \in PlaylistIds :
        /\ creates' = creates + tries
        /\ created_id' = id
        /\ playlist_id' = id
        /\ error' = error
        /\ IF variant = "builder_lambda"
           THEN pc' = "search_init" /\ result' = result
           ELSE pc' = "done" /\ result' = [ok |-> TRUE, playlist_id |-> id]
    /\ UNCHANGED <<variant, competition_id, earliest_date, test_mode, cutoff_iso,
                   has_playlist, reports_bucket, probe_outcome, task_vars,
                   search_vars, insert_vars, max_pages, cfg>>
create_playlist ==
    /\ pc = "create"
    /\ issued' = issued \cup {"create"}
    /\ creates' = creates + 1
    /\ \/ \E id \in PlaylistIds :
            /\ created_id' = id
            /\ playlist_id' = id
            /\ error' = error
            /\ IF variant = "builder_lambda"
               THEN pc' = "search_init" /\ result' = result
               ELSE pc' = "done" /\ result' = [ok |-> TRUE, playlist_id |-> id]
       \/ /\ Raise("CreateError")
          /\ UNCHANGED <<created_id, playlist_id, result>>
    /\ UNCHANGED <<variant, competition_id, earliest_date, test_mode, cutoff_iso,
                   has_playlist, reports_bucket, probe_outcome, task_vars,
                   search_vars, insert_vars, max_pages, cfg>>

\* builder_lambda.py 134-139: the empty result, or on to _add_videos_to_playlist
after_search_RaiseOnEmpty ==
    /\ pc = "search_done"
    /\ IF video_ids = <<>>
       THEN /\ Raise("No matching videos found")
            /\ UNCHANGED <<idx, videos_added, result>>
       ELSE /\ pc' = "insert"
            /\ idx' = 1
            /\ videos_added' = 0
            /\ UNCHANGED <<result, error>>
    /\ UNCHANGED <<handler_vars, search_vars, attempts, failed_inserts, insert_targets,
                   max_pages, cfg, issued>>
after_search ==
    /\ pc = "search_done"
    /\ IF video_ids = <<>>
       THEN /\ pc' = "done"
            /\ result' = [ok |-> TRUE, playlist_id |-> playlist_id, videos_added |-> 0,
                          message |-> "No matching videos found"]
            /\ UNCHANGED <<idx, videos_added>>
       ELSE /\ pc' = "insert"
            /\ idx' = 1
            /\ videos_added' = 0
            /\ result' = result
    /\ UNCHANGED <<handler_vars, search_vars, attempts, failed_inserts, insert_targets, error,
                   max_pages, cfg, issued>>

-----------------------------------------------------------------------------
(* Specification of _search_videos alone: the arguments are drawn in Init *)

FilterOptions   == {{}, {"highlights"}}
KeywordOptions  == {SubSeq(KeywordNames, 1, k) : k \in 0..MaxKeywords}
MinuteOptions   == {{}, {1}}
WithOpt(d, key, opt) == IF opt = {} THEN d ELSE d @@ (key :> CHOOSE x \in opt : TRUE)
SearchCfgs ==
    {WithOpt(WithOpt(
        [channel_ids |-> [i \in 1..n |-> i], search_keywords |-> k],
        "search_filter", f), "min_duration_minutes", m) :
        n \in 0..MaxChannels, k \in KeywordOptions, f \in FilterOptions, m \in MinuteOptions}
MaxPagesValues == (0 - 1)..MaxPagesBound

InitCommon ==
    /\ error = "none"
    /\ result = EmptyDict
    /\ ci = 0 /\ qi = 0
    /\ page_token = NoToken
    /\ pages = 0
    /\ seen = {}
    /\ videos_added = 0
    /\ issued = {}
    /\ creates = 0
    /\ created_id = NoneVal
    /\ probe_outcome = "none"
    /\ last = NoLast
    /\ meta_failed = FALSE
    /\ dup_skipped = FALSE
    /\ combos_searched = 0
    /\ boundary_hit = FALSE
    /\ qualified = {}
    /\ details_left = 0
    /\ resp_next = NoToken
    /\ attempts = <<>>
    /\ failed_inserts = 0
    /\ insert_targets = {}
    /\ malformed_seen = FALSE
    /\ test_mode_asked = FALSE
    /\ runs = 0
    /\ ok_runs = 0
    /\ ok_creates = 0

SearchInit ==
    /\ InitCommon
    /\ now = 0
    /\ playlist_id = "PLnew"
    /\ video_ids = <<>>
    /\ idx = 0
    /\ variant = "builder_lambda"
    /\ pc = "search_init"
    /\ competition_id = "epl"
    /\ earliest_date = [kind |-> "date_str", day |-> 0]
    /\ test_mode = FALSE
    /\ cutoff_iso = 0
    /\ has_playlist = FALSE
    /\ reports_bucket = FALSE
    /\ cfg \in SearchCfgs
    /\ max_pages \in MaxPagesValues

SearchNext == search_videos

SearchSpec == SearchInit /\ [][SearchNext]_vars

-----------------------------------------------------------------------------
(* Specification of _add_videos_to_playlist alone *)

PopulateInit ==
    /\ InitCommon
    /\ now = 0
    /\ variant = "builder_lambda"
    /\ pc = "insert"
    /\ competition_id = "epl"
    /\ earliest_date = [kind |-> "date_str", day |-> 0]
    /\ test_mode = FALSE
    /\ cutoff_iso = 0
    /\ has_playlist = FALSE
    /\ reports_bucket = FALSE
    /\ cfg = EmptyDict
    /\ max_pages = DefaultMaxPages
    /\ playlist_id \in PlaylistIds
    /\ video_ids \in SeqsUpTo(Videos, MaxListLen)
    /\ idx = 1

PopulateNext == add_videos_to_playlist

PopulateSpec == PopulateInit /\ [][PopulateNext]_vars

-----------------------------------------------------------------------------
(* Specification of one invocation of handler *)

Init ==
    /\ InitCommon
    /\ now = 0
    /\ playlist_id = NoneVal
    /\ video_ids = <<>>
    /\ idx = 0
    /\ variant = "builder_lambda"
    /\ pc = "idle"
    /\ competition_id = NoneVal
    /\ earliest_date = [kind |-> "none", day |-> 0]
    /\ test_mode = FALSE
    /\ cutoff_iso = 0
    /\ has_playlist = FALSE
    /\ reports_bucket = FALSE
    /\ cfg = EmptyDict
    /\ max_pages = DefaultMaxPages

Next ==
    \/ handler_entry
    \/ youtube_client_from_secret
    \/ probe_builder
    \/ probe_main
    \/ load_channels_config
    \/ create_playlist
    \/ search_videos
    \/ after_search
    \/ add_videos_to_playlist

Spec == Init /\ [][Next]_vars

\* One invocation in which the running step is always taken in the end: the
\* program is single-threaded and every external call returns or fails
LiveSpec == Init /\ [][Next]_vars /\ WF_vars(Next)

-----------------------------------------------------------------------------
(* Specification of _compute_cutoff_iso alone: the argument and the clock are
   drawn in Init; both datetime.now() calls read the same instant *)

CutoffDays == 19853..19857
CutoffNows ==
    {19855 * SecondsPerDay + h * 3600 + sec :
        h \in {0, 15, 16, 23}, sec \in {0, 3599}}
CutoffDates ==
    {[kind |-> k, day |-> d] : k \in DateKindsWithDay, d \in CutoffDays}
    \cup {[kind |-> k, day |-> 0] : k \in {"none", "empty_str", "garbage_str", "number"}}

\* builder_lambda.py 299-346, main.py 132-155
compute_cutoff_iso ==
    /\ pc = "cutoff"
    /\ LET parsed == IF variant = "builder_lambda"
                     THEN parse_earliest_builder(earliest_date)
                     ELSE parse_earliest_main(earliest_date)
       IN  IF parsed.ok
           THEN /\ cutoff_iso' = cutoff_seconds(parsed.day, now, now)
                /\ pc' = "cutoff_done"
                /\ error' = error
           ELSE /\ Raise("CutoffError")
                /\ cutoff_iso' = cutoff_iso
    /\ UNCHANGED <<variant, competition_id, earliest_date, test_mode, has_playlist,
                   reports_bucket, playlist_id, creates, created_id, probe_outcome,
                   task_vars, search_vars, insert_vars, result, max_pages, cfg, issued>>

CutoffInit ==
    /\ InitCommon
    /\ now \in CutoffNows
    /\ playlist_id = NoneVal
    /\ video_ids = <<>>
    /\ idx = 0
    /\ variant \in Variants
    /\ pc = "cutoff"
    /\ competition_id = "epl"
    /\ earliest_date \in CutoffDates
    /\ test_mode = FALSE
    /\ cutoff_iso = 0
    /\ has_playlist = FALSE
    /\ reports_bucket = FALSE
    /\ cfg = EmptyDict
    /\ max_pages = DefaultMaxPages

CutoffNext == compute_cutoff_iso

CutoffSpec == CutoffInit /\ [][CutoffNext]_vars

-----------------------------------------------------------------------------
(* Specification of successive invocations: handler keeps nothing between two
   calls (no module-level state is written), so each call starts from the
   state of Init; only the tallies of the ended invocations are kept *)

Succeeded == pc = "done" /\ ~test_mode

next_invocation ==
    /\ pc \in {"done", "raised"}
    /\ runs + 1 < MaxInvocations
    /\ runs' = runs + 1
    /\ ok_runs' = IF Succeeded THEN ok_runs + 1 ELSE ok_runs
    /\ ok_creates' = IF Succeeded THEN ok_creates + creates ELSE ok_creates
    /\ pc' = "idle"
    /\ error' = "none"
    /\ result' = EmptyDict
    /\ variant' = "builder_lambda"
    /\ competition_id' = NoneVal
    /\ earliest_date' = [kind |-> "none", day |-> 0]
    /\ test_mode' = FALSE
    /\ test_mode_asked' = FALSE
    /\ now' = 0
    /\ cutoff_iso' = 0
    /\ has_playlist' = FALSE
    /\ reports_bucket' = FALSE
    /\ cfg' = EmptyDict
    /\ max_pages' = DefaultMaxPages
    /\ playlist_id' = NoneVal
    /\ video_ids' = <<>>
    /\ idx' = 0
    /\ ci' = 0 /\ qi' = 0
    /\ page_token' = NoToken
    /\ pages' = 0
    /\ seen' = {}
    /\ videos_added' = 0
    /\ issued' = {}
    /\ creates' = 0
    /\ created_id' = NoneVal
    /\ probe_outcome' = "none"
    /\ last' = NoLast
    /\ meta_failed' = FALSE
    /\ dup_skipped' = FALSE
    /\ combos_searched' = 0
    /\ boundary_hit' = FALSE
    /\ qualified' = {}
    /\ malformed_seen' = FALSE
    /\ details_left' = 0
    /\ resp_next' = NoToken
    /\ attempts' = <<>>
    /\ failed_inserts' = 0
    /\ insert_targets' = {}

RepeatNext ==
    \/ Next
    \/ next_invocation

RepeatSpec == Init /\ [][RepeatNext]_vars

-----------------------------------------------------------------------------
(* Properties *)

Validated == pc = "client" \/ "secret" \in issued
PlatformWork == {"config", "create", "search", "videos", "insert"}
ComboOf(l) == <<l.ci, l.qi>>
ComboBefore(a, b) == a[1] < b[1] \/ (a[1] = b[1] /\ a[2] < b[2])
SearchRequested == last' # last
NoUsableQuery ==
    /\ "search_filter" \notin DOMAIN cfg \/ cfg.search_filter = ""
    /\ "search_keywords" \notin DOMAIN cfg \/ cfg.search_keywords = <<>>

\* C1: in both handlers, a task whose competition_id or earliest_date is missing
\* or empty ends in a raised error, and no external call of any kind has been
\* issued when it is raised.
C1_MissingFieldRaisesBeforeAnyCall ==
    (pc # "idle" /\ (Falsy(competition_id) \/ FalsyDate(earliest_date)))
        => /\ pc = "raised"
           /\ error # "none"
           /\ result = EmptyDict
           /\ issued = {}
           /\ creates = 0
           /\ attempts = <<>>
           /\ last = NoLast

C1_Witness ==
    /\ pc = "raised"
    /\ variant = "main"
    /\ competition_id = NoneVal
    /\ earliest_date.kind = "date_str"
    /\ error = "Missing 'competition_id' in event"
    /\ issued = {}

\* C2: _add_videos_to_playlist requests one insertion per identifier, in list
\* order; an insertion failing with HttpError does not stop the later ones; the
\* returned count is the length of the list minus the number of failed insertions.
C2_EveryVideoAttemptedFailuresCounted ==
    /\ IsPrefix(attempts, video_ids)
    /\ pc = "insert" => /\ Len(attempts) = idx - 1
                        /\ videos_added + failed_inserts = Len(attempts)
    /\ pc = "raised" => error = "InsertTransportError"
    /\ pc = "done" => /\ attempts = video_ids
                      /\ result.videos_added = Len(video_ids) - failed_inserts

C2_Witness ==
    /\ pc = "done"
    /\ Len(video_ids) >= 3
    /\ attempts = video_ids
    /\ failed_inserts = 1
    /\ result.videos_added = Len(video_ids) - 1

\* C3: the sequence _search_videos builds never holds an identifier twice, and
\* it only grows at its end, so identifiers stay in the order of their admission.
C3_NoDuplicatesFirstSeenOrder ==
    [][NoDup(video_ids') /\ IsPrefix(video_ids, video_ids')]_vars

C3_Witness ==
    /\ pc = "search_done"
    /\ dup_skipped
    /\ Len(video_ids) >= 2
    /\ last.n >= 2

\* C4: a video is in the result iff some metadata fetch reported it with a
\* duration strictly above min_duration_minutes * 60 seconds (180 s when the
\* configuration has no min_duration_minutes); a duration equal to the
\* threshold does not admit it.
C4_AdmittedIffStrictlyLonger ==
    /\ Range(video_ids) = qualified
    /\ seen = qualified
    /\ NoDup(video_ids)

C4_Witness ==
    /\ pc = "search_done"
    /\ "min_duration_minutes" \notin DOMAIN cfg
    /\ boundary_hit
    /\ Len(video_ids) = 1
    /\ combos_searched = 1
    /\ last.n = 1

\* C5 as claimed: once a metadata fetch of a channel/query combination has
\* failed, no further search page is requested for that combination.
C5_Original_MetadataFailureAbandonsCombination ==
    [][meta_failed => ~(SearchRequested /\ ComboOf(last') = ComboOf(last))]_vars

\* C5 as amended: a metadata fetch failing with HttpError drops only that page:
\* no video of the page is admitted, the search does not raise, and paging of
\* the same combination goes on with the returned token exactly when there is
\* one and fewer than max_pages pages have been requested for the combination;
\* otherwise the search moves to the next query/channel.
C5_MetadataFailureSkipsPageOnly ==
    [][(SearchRequested /\ last'.outcome = "meta_http")
        => /\ video_ids' = video_ids
           /\ error' = "none"
           /\ IF last'.next # NoToken /\ last'.n < max_pages
              THEN /\ pc' = "search_page"
                   /\ <<ci', qi'>> = <<ci, qi>>
                   /\ page_token' = last'.next
              ELSE \/ pc' = "search_done"
                   \/ pc' = "search_page" /\ ComboBefore(<<ci, qi>>, <<ci', qi'>>)]_vars

C5_Witness ==
    /\ meta_failed
    /\ last.n = 2
    /\ ComboOf(last) = <<ci, qi>>
    /\ pc = "details_loop"

\* C6: a search page failing with HttpError abandons only its combination: the
\* search does not raise, the videos admitted so far stay, no further page is
\* requested for that combination, and every combination has been searched
\* when _search_videos returns.
C6_SearchFailureAbandonsOnlyItsCombination ==
    /\ [][(SearchRequested /\ last'.outcome = "search_http")
            => /\ pc' \in {"search_page", "search_done"}
               /\ error' = "none"
               /\ video_ids' = video_ids
               /\ pc' = "search_page" => ComboBefore(<<ci, qi>>, <<ci', qi'>>)]_vars
    /\ [][SearchRequested
            => /\ ComboOf(last') = <<ci, qi>>
               /\ ComboOf(last') = ComboOf(last) \/ ComboBefore(ComboOf(last), ComboOf(last'))
               /\ last.outcome = "search_http" => ComboOf(last') # ComboOf(last)]_vars
    /\ [](pc = "search_done"
            => combos_searched = Len(channel_ids(cfg)) * Len(queries(cfg)))

C6_Witness ==
    /\ last.outcome = "search_http"
    /\ pc = "search_page"
    /\ video_ids # <<>>
    /\ ComboBefore(ComboOf(last), <<ci, qi>>)

\* C7 as claimed: for every max_pages, 0 and negative values included, a
\* combination gets at most max_pages search-page requests, and paging goes on
\* only after a response that carried a next-page token.
C7_AtMostMaxPagesRequests ==
    /\ last.n <= (IF max_pages > 0 THEN max_pages ELSE 0)
    /\ (pc \in {"search_page", "details_loop"} /\ ComboOf(last) = <<ci, qi>>
          /\ last.n > 1) => page_token # NoToken

\* C8: when the search of a non-test invocation returns no video, handler
\* returns ok with the identifier of the playlist it created and
\* videos_added = 0; one playlist was created; no insertion was requested.
C8_EmptySearchStillSucceeds ==
    /\ [][(pc = "search_done" /\ video_ids = <<>>)
            => /\ pc' = "done"
               /\ error' = "none"
               /\ result'.ok = TRUE
               /\ result'.playlist_id = created_id
               /\ created_id \in PlaylistIds
               /\ result'.videos_added = 0
               /\ creates' = 1
               /\ "insert" \notin issued'
               /\ attempts' = <<>>]_vars
    /\ []((pc = "done" /\ variant = "builder_lambda" /\ ~test_mode /\ video_ids = <<>>)
            => /\ result.ok = TRUE
               /\ result.playlist_id = created_id
               /\ result.videos_added = 0
               /\ creates = 1
               /\ attempts = <<>>)

C8_Witness ==
    /\ pc = "done"
    /\ variant = "builder_lambda"
    /\ ~test_mode
    /\ video_ids = <<>>
    /\ "videos" \in issued
    /\ boundary_hit
    /\ result.videos_added = 0
    /\ result.playlist_id = "PLnew"

\* C9: with neither a non-empty search_filter nor a non-empty search_keywords,
\* _search_videos returns the empty sequence without raising and without any
\* search-page or metadata request, whatever channel_ids holds.
C9_NoQueriesNoRequests ==
    (NoUsableQuery /\ pc # "search_init")
        => /\ pc = "search_done"
           /\ video_ids = <<>>
           /\ error = "none"
           /\ issued = {}
           /\ last = NoLast

C9_Witness ==
    /\ pc = "search_done"
    /\ NoUsableQuery
    /\ channel_ids(cfg) # <<>>
    /\ video_ids = <<>>

\* C10 as claimed: a validated test-mode invocation issues no configuration
\* lookup, playlist creation, search, metadata fetch or insertion; a successful
\* probe yields {ok: true, message, channel}, with or without a configuration
\* for the competition; a failed probe ends in a raised error.
C10_TestModeOnlyProbes ==
    (test_mode /\ Validated)
        => /\ issued \cap PlatformWork = {}
           /\ creates = 0
           /\ probe_outcome = "ok"
                => /\ pc = "done"
                   /\ result.ok = TRUE
                   /\ result.message = "YouTube API reachable"
                   /\ result.channel \in ProbeTitles
           /\ probe_outcome = "failed" => pc = "raised"

\* C11: a non-test invocation whose competition identifier has no entry in the
\* channel configuration ends in the unknown-competition error, and no
\* playlist has been created, no search run and no playlist item inserted.
C11_UnknownCompetitionFailsBeforeCreate ==
    ("config" \in issued /\ error # "ConfigLoadError" /\ cfg = EmptyDict)
        => /\ pc = "raised"
           /\ error = "Unknown competition_id"
           /\ result = EmptyDict
           /\ creates = 0
           /\ issued \cap {"create", "search", "videos", "insert"} = {}
           /\ last = NoLast
           /\ attempts = <<>>

C11_Witness ==
    /\ pc = "raised"
    /\ variant = "main"
    /\ ~test_mode
    /\ competition_id = "xyz"
    /\ ~has_playlist
    /\ "config" \in issued
    /\ error = "Unknown competition_id"

C13_CreateFailureIsFatal ==
    /\ [][("create" \in issued' /\ "create" \notin issued /\ created_id' = NoneVal)
            => /\ pc' = "raised"
               /\ error' = "CreateError"
               /\ result' = EmptyDict]_vars
    /\ []((creates > 0 /\ created_id = NoneVal)
            => /\ pc = "raised"
               /\ result = EmptyDict
               /\ creates = 1
               /\ issued \cap {"search", "videos", "insert"} = {}
               /\ last = NoLast
               /\ attempts = <<>>)

C13_Witness ==
    /\ pc = "raised"
    /\ error = "CreateError"
    /\ variant = "builder_lambda"
    /\ creates = 1
    /\ created_id = NoneVal
    /\ cfg \in HandlerCfgs

\* C14 as claimed: in every variant, the summary a successful non-test
\* invocation returns holds ok = true, the identifier of the created playlist,
\* and videos_added equal to the number of insertions that succeeded.
C14_SummaryCountsSuccessfulInsertions ==
    Succeeded
        => /\ result.ok = TRUE
           /\ result.playlist_id = created_id
           /\ "videos_added" \in DOMAIN result
           /\ result.videos_added = Len(attempts) - failed_inserts

\* C14 holds of builder_lambda.handler
C14_BuilderSummaryCountsSuccessfulInsertions ==
    (Succeeded /\ variant = "builder_lambda")
        => /\ result.ok = TRUE
           /\ result.playlist_id = created_id
           /\ "videos_added" \in DOMAIN result
           /\ result.videos_added = Len(attempts) - failed_inserts

\* C15: for every valid input date D and one current instant, the cutoff is
\* now_utc - (today_local - D) days - 24 hours, today_local being the calendar
\* date of the instant at UTC+8; so it lies strictly before local midnight at
\* the start of D and at most 24 hours before it, for future dates too. Every
\* date-only string is a valid input of both variants.
LocalToday == (now + 28800) \div 86400
LocalMidnight(day) == day * 86400 - 28800
C15_CutoffIsOneDayBeforeLocalMidnightAtMost ==
    /\ pc = "cutoff_done"
         => /\ cutoff_iso = now - (LocalToday - earliest_date.day) * 86400 - 86400
            /\ cutoff_iso < LocalMidnight(earliest_date.day)
            /\ LocalMidnight(earliest_date.day) - cutoff_iso <= 86400
    /\ (pc # "cutoff" /\ earliest_date.kind = "date_str") => pc = "cutoff_done"

C15_Witness ==
    /\ pc = "cutoff_done"
    /\ variant = "main"
    /\ earliest_date.kind = "date_str"
    /\ earliest_date.day > LocalToday
    /\ LocalToday # now \div 86400
    /\ LocalMidnight(earliest_date.day) - cutoff_iso = 86400

\* C16 as claimed: in both variants a task whose test_mode is a false-like
\* string ("false", "0", "no", ""), the number 0, false or absent runs the
\* normal path, and one whose test_mode is true, a non-zero number or a
\* true-like string runs the connectivity probe.
C16_TestModeCoercedFromStringsAndNumbers ==
    /\ (pc = "probe" \/ "probe" \in issued) => test_mode_asked
    /\ (pc = "config" \/ "config" \in issued) => ~test_mode_asked

\* C17 as claimed: in both variants presence is checked before the cutoff is
\* resolved: a task without earliest_date fails with a missing-field error
\* naming an absent field, never with an error of the cutoff resolver, and a
\* task missing only competition_id fails with its missing-field error while
\* no cutoff has been computed.
C17_PresenceCheckedBeforeCutoff ==
    /\ (pc # "idle" /\ FalsyDate(earliest_date))
         => /\ pc = "raised"
            /\ error # "CutoffError"
            /\ \/ error = "Missing 'earliest_date' in event"
               \/ error = "Missing 'competition_id' in event" /\ Falsy(competition_id)
    /\ (pc # "idle" /\ Falsy(competition_id) /\ ~FalsyDate(earliest_date))
         => /\ pc = "raised"
            /\ error = "Missing 'competition_id' in event"
            /\ cutoff_iso = 0

\* C18: in a non-test invocation of builder_lambda.handler the playlist is
\* created first, then come all search-page and metadata requests, then all
\* insertions: no search request before the playlist was created, none once an
\* insertion was requested, no insertion before the search has returned; each
\* insertion carries the identifier the create request returned, and the
\* videos are inserted in the order of the search result.
C18_CreateThenSearchThenInsert ==
    /\ [][creates' # creates
            => /\ issued \cap {"create", "search", "videos", "insert"} = {}
               /\ last = NoLast
               /\ attempts = <<>>]_vars
    /\ [][(SearchRequested \/ (issued' \ issued) \cap {"search", "videos"} # {})
            => /\ created_id \in PlaylistIds
               /\ creates = 1
               /\ attempts = <<>>
               /\ "insert" \notin issued]_vars
    /\ [][attempts' # attempts
            => /\ pc = "insert"
               /\ created_id \in PlaylistIds
               /\ last' = last
               /\ video_ids' = video_ids
               /\ Len(attempts) < Len(video_ids)
               /\ attempts' = Append(attempts, video_ids[Len(attempts) + 1])
               /\ insert_targets' = {created_id}]_vars
    /\ [](pc \in {"search_init", "search_page", "details_loop", "search_done"}
            => attempts = <<>> /\ "create" \in issued)

C18_Witness ==
    /\ Succeeded
    /\ variant = "builder_lambda"
    /\ Len(video_ids) >= 2
    /\ attempts = video_ids
    /\ insert_targets = {created_id}
    /\ created_id = "PLnew"
    /\ {"create", "search", "videos", "insert"} \subseteq issued

\* C19 as claimed: a video of a metadata response that cannot be processed
\* (unparseable duration, content details missing) aborts nothing: the search
\* goes on with the rest of the page or with the end of the iteration, and
\* does not raise.
C19_MalformedVideoDoesNotAbortSearch ==
    [][(malformed_seen' /\ ~malformed_seen)
        => /\ pc' \in {"details_loop", "search_page", "search_done"}
           /\ error' = "none"
           /\ video_ids' = video_ids]_vars

\* C20: every invocation ends in a returned summary or a raised error; the
\* search loop cannot run on: a channel/query combination gets at most
\* max(1, max_pages) search-page requests whatever the responses are, the
\* combinations are taken once each, and the insert loop is bounded by the
\* length of the search result.
C20_InvocationTerminates ==
    /\ <>(pc \in {"done", "raised"})
    /\ [](/\ last.n <= (IF max_pages > 1 THEN max_pages ELSE 1)
          /\ pages < (IF max_pages > 1 THEN max_pages ELSE 1)
          /\ combos_searched <= Len(channel_ids(cfg)) * Len(queries(cfg))
          /\ Len(attempts) <= Len(video_ids))
    /\ [][pc \notin {"done", "raised"}]_vars

C20_Witness ==
    /\ pc = "done"
    /\ variant = "builder_lambda"
    /\ max_pages = 2
    /\ last.n = 2
    /\ last.next # NoToken
    /\ attempts # <<>>

\* C21: in both variants and whatever test_mode is, an earliest_date that is
\* present but unparseable or of an unsupported type ends the invocation in an
\* error raised by cutoff resolution, before the authenticated client is
\* obtained: no secret fetch, probe, configuration load, playlist creation or
\* search has been issued. (In builder_lambda.handler a task that also lacks
\* competition_id is stopped one step earlier, by the presence check.)
InvalidDate(e) == e.kind \in {"garbage_str", "number"}
C21_InvalidDateFailsBeforeClient ==
    /\ (pc # "idle" /\ InvalidDate(earliest_date))
         => /\ pc = "raised"
            /\ result = EmptyDict
            /\ issued = {}
            /\ creates = 0
            /\ last = NoLast
            /\ attempts = <<>>
            /\ IF variant = "builder_lambda" /\ Falsy(competition_id)
               THEN error = "Missing 'competition_id' in event"
               ELSE error = "CutoffError"
    /\ error = "CutoffError" => pc = "raised" /\ issued = {} /\ creates = 0

C21_Witness ==
    /\ pc = "raised"
    /\ error = "CutoffError"
    /\ variant = "builder_lambda"
    /\ test_mode
    /\ competition_id = "epl"
    /\ earliest_date.kind = "garbage_str"
    /\ issued = {}

\* C22: the first search-page request of a channel/query combination carries
\* no page token; every later request of the combination carries the
\* next-page token that the response to the combination's previous request
\* returned; so no token passes from one combination to the next.
C22_PageTokenFollowsPreviousResponse ==
    [][SearchRequested
        => IF ComboOf(last) # <<ci, qi>>
           THEN request_page_token = NoToken /\ last'.n = 1
           ELSE /\ last.outcome \in {"ok", "meta_http"}
                /\ last.next # NoToken
                /\ request_page_token = last.next
                /\ last'.n = last.n + 1]_vars

C22_Witness ==
    /\ pc = "search_page"
    /\ ComboOf(last) = <<1, 1>>
    /\ last.n = 2
    /\ last.next # NoToken
    /\ <<ci, qi>> = <<1, 2>>
    /\ request_page_token = NoToken

====
